---------------------------- MODULE Spec2Model ----------------------------
(***************************************************************************)
(* A model of the anchor-spl-amm program: the fee engine                   *)
(* (models/fee_strategy.rs), the price-impact engine                       *)
(* (models/price_impact.rs), the volatility tracker (models/volatility.rs) *)
(* and the swap instruction                                                *)
(* (instructions/swap_exact_tokens_for_tokens.rs).                         *)
(*                                                                         *)
(* Numbers.  Token amounts (u64) are modelled by naturals far below 2^32,  *)
(* so no u64 or I64F64 operation of the modelled runs can overflow.  An    *)
(* I64F64 value is modelled by its bit pattern at a reduced resolution:    *)
(* the integer v * 2^FRAC_BITS (the code has 64 fractional bits).  u16     *)
(* arithmetic keeps its real width: a u16 product either aborts the call   *)
(* (overflow checks compiled in) or wraps modulo 2^16.                     *)
(***************************************************************************)
EXTENDS Integers, Sequences, FiniteSets, TLC

VARIABLES
    amm,              \* state.rs Amm: fee, fee_config, price_impact_config, volatility_config
    pool_a,           \* amount of the pool's token account A
    pool_b,           \* amount of the pool's token account B
    trader_a,         \* amount of the trader's token account A
    trader_b,         \* amount of the trader's token account B
    tracker,          \* state.rs Pool.volatility_tracker
    clock,            \* Clock::get()?.unix_timestamp
    overflow_checks,  \* build profile: are integer overflow checks compiled in
    last,             \* what the last instruction did (observation only)
    call              \* the pure-function call under study: its inputs and its result

vars == <<amm, pool_a, pool_b, trader_a, trader_b, tracker, clock,
          overflow_checks, last, call>>

-----------------------------------------------------------------------------
(* Bounds of the model *)

\* fractional bits of the fixed-point type (64 in I64F64)
FRAC_BITS == 8
\* decimal places of one token in the tier thresholds (6 in the code)
TOKEN_DECIMALS == 0
\* largest timestamp the clock reaches
MaxClock == 2
\* largest output amount handed to adjust_output_for_slippage on its own
MaxOutput == 12

-----------------------------------------------------------------------------
(* Integer helpers *)

Abs(a) == IF a < 0 THEN -a ELSE a

\* a let binding: F of the value v, which is computed once
Bind(v, F(_)) == F(v)

RECURSIVE Pow(_, _)
Pow(b, e) == IF e = 0 THEN 1 ELSE b * Pow(b, e - 1)

\* <<q, r>> with a * b = q * c + r and 0 <= r < c, for a, b >= 0 and c > 0,
\* computed without forming a * b (which may exceed the checker's integers)
RECURSIVE MulDivQR(_, _, _)
MulDivQR(a, b, c) ==
    IF b = 0 \/ a = 0 THEN <<0, 0>>
    ELSE IF a <= 2147483647 \div b THEN <<(a * b) \div c, (a * b) % c>>
    ELSE IF a >= c THEN
        LET h == MulDivQR(a % c, b, c) IN <<(a \div c) * b + h[1], h[2]>>
    ELSE
        LET h == MulDivQR(a, b \div 2, c)
            t == 2 * h[2] + (b % 2) * a
        IN  <<2 * h[1] + (t \div c), t % c>>

\* floor(a * b / c) for any sign of a and b, c > 0
MulDivFloor(a, b, c) ==
    Bind(MulDivQR(Abs(a), Abs(b), c), LAMBDA qr :
        IF (a < 0) = (b < 0) \/ a = 0 \/ b = 0 THEN qr[1]
        ELSE IF qr[2] = 0 THEN -qr[1] ELSE -qr[1] - 1)

\* a * b / c rounded towards zero, c # 0
MulDivTrunc(a, b, c) ==
    Bind(MulDivQR(Abs(a), Abs(b), Abs(c))[1], LAMBDA q :
        IF ((a < 0) # (b < 0)) # (c < 0) THEN -q ELSE q)

\* floor of the square root of n >= 0
RECURSIVE ISqrtFrom(_, _)
ISqrtFrom(n, r) == IF (r + 1) * (r + 1) <= n THEN ISqrtFrom(n, r + 1) ELSE r
RECURSIVE ISqrt(_)
ISqrt(n) ==
    IF n < 2 THEN n
    ELSE LET s == 2 * ISqrt(n \div 4) IN ISqrtFrom(n, s)

-----------------------------------------------------------------------------
(* fixed::types::I64F64 at the model's resolution *)

ONE == Pow(2, FRAC_BITS)

\* I64F64::from_num of an integer
from_num(n) == n * ONE
\* self * rhs: the exact product with the extra fractional bits discarded
fx_mul(x, y) == MulDivFloor(x, y, ONE)
\* self / rhs: the quotient rounded towards zero
fx_div(x, y) == MulDivTrunc(x, ONE, y)
\* to_num of a non-negative value into an integer type: the integer part
to_num_int(x) == x \div ONE
\* to_num::<u16>: the integer part, wrapped into 16 bits
to_num_u16(x) == (x \div ONE) % 65536
\* I64F64::sqrt of a non-negative value
fx_sqrt(x) == ISqrt(x * ONE)

-----------------------------------------------------------------------------
(* models/fee_strategy.rs *)

Strategies == {"Fixed", "Dynamic", "Tiered", "VolatilityAdjusted"}

FeeConfig(s, mn, mx, b, adj) ==
    [strategy |-> s, min_fee_bps |-> mn, max_fee_bps |-> mx,
     base_fee_bps |-> b, adjustment_factor |-> adj]

\* the outcome of a u16 operation whose exact value is v: a value, or an abort
U16(v, checks) ==
    IF v < 65536 THEN [ok |-> TRUE, v |-> v]
    ELSE IF checks THEN [ok |-> FALSE, v |-> 0]
    ELSE [ok |-> TRUE, v |-> v % 65536]

\* Ord::clamp(min, max) for min <= max
clamp(v, mn, mx) == IF v < mn THEN mn ELSE IF v > mx THEN mx ELSE v

calculate_dynamic_fee_bps_noclamp(config, input_amount, reserve) ==
    Bind(IF reserve = 0 THEN from_num(1)
         ELSE fx_div(from_num(input_amount), from_num(reserve)), LAMBDA ratio :
    LET adjustment == fx_div(from_num(config.adjustment_factor), from_num(1000))
        base_fee == from_num(config.base_fee_bps)
        fee_adjustment == fx_mul(fx_mul(adjustment, ratio), ratio)
        calculated_fee == base_fee + fx_mul(fee_adjustment, from_num(10000))
    IN  [ok |-> TRUE, v |-> to_num_u16(calculated_fee)])

calculate_dynamic_fee_bps(config, input_amount, reserve) ==
    Bind(IF reserve = 0 THEN from_num(1)
         ELSE fx_div(from_num(input_amount), from_num(reserve)), LAMBDA ratio :
    LET adjustment == fx_div(from_num(config.adjustment_factor), from_num(1000))
        base_fee == from_num(config.base_fee_bps)
        fee_adjustment == fx_mul(fx_mul(adjustment, ratio), ratio)
        calculated_fee == base_fee + fx_mul(fee_adjustment, from_num(10000))
        fee_bps == to_num_u16(calculated_fee)
    IN  [ok |-> TRUE, v |-> clamp(fee_bps, config.min_fee_bps, config.max_fee_bps)])

TokenUnit == Pow(10, TOKEN_DECIMALS)
tier1 == 1000 * TokenUnit
tier2 == 10000 * TokenUnit
tier3 == 100000 * TokenUnit

\* a variant in which each threshold belongs to the lower-volume tier
calculate_tiered_fee_bps_inclusive(config, input_amount, checks) ==
    IF input_amount <= tier1 THEN [ok |-> TRUE, v |-> config.max_fee_bps]
    ELSE IF input_amount <= tier2 THEN
        Bind(U16(config.max_fee_bps + config.base_fee_bps, checks), LAMBDA s :
            [ok |-> s.ok, v |-> s.v \div 2])
    ELSE IF input_amount <= tier3 THEN [ok |-> TRUE, v |-> config.base_fee_bps]
    ELSE [ok |-> TRUE, v |-> config.min_fee_bps]

calculate_tiered_fee_bps(config, input_amount, checks) ==
    IF input_amount < tier1 THEN [ok |-> TRUE, v |-> config.max_fee_bps]
    ELSE IF input_amount < tier2 THEN
        Bind(U16(config.max_fee_bps + config.base_fee_bps, checks), LAMBDA s :
            [ok |-> s.ok, v |-> s.v \div 2])
    ELSE IF input_amount < tier3 THEN [ok |-> TRUE, v |-> config.base_fee_bps]
    ELSE [ok |-> TRUE, v |-> config.min_fee_bps]

low_threshold == 50
high_threshold == 200

calculate_volatility_adjusted_fee_bps(config, volatility, checks) ==
    IF volatility < low_threshold THEN [ok |-> TRUE, v |-> config.min_fee_bps]
    ELSE IF volatility > high_threshold THEN [ok |-> TRUE, v |-> config.max_fee_bps]
    ELSE
        LET volatility_range == high_threshold - low_threshold
            fee_range == config.max_fee_bps - config.min_fee_bps
            vol_position == volatility - low_threshold
        IN  Bind(U16(vol_position * fee_range, checks), LAMBDA prod :
            Bind(U16(config.min_fee_bps + prod.v \div volatility_range, checks),
                 LAMBDA sum : [ok |-> prod.ok /\ sum.ok, v |-> sum.v]))

\* the result is [ok, v]: ok = FALSE when the call aborts instead of returning
get_fee_rate_bps(config, input_amount, reserve_in, reserve_out, volatility, checks) ==
    CASE config.strategy = "Fixed" -> [ok |-> TRUE, v |-> config.base_fee_bps]
      [] config.strategy = "Dynamic" ->
            calculate_dynamic_fee_bps(config, input_amount, reserve_in)
      [] config.strategy = "Tiered" ->
            calculate_tiered_fee_bps(config, input_amount, checks)
      [] config.strategy = "VolatilityAdjusted" ->
            calculate_volatility_adjusted_fee_bps(config, volatility, checks)

-----------------------------------------------------------------------------
(* models/price_impact.rs *)

PriceImpactConfig(en, ms, daf) ==
    [enabled |-> en, max_slippage_bps |-> ms, dynamic_adjustment_factor |-> daf]

\* reserve_in > 0, reserve_out > 0 and output_amount < reserve_out: otherwise
\* a division by zero or a u64 underflow aborts the call
calculate_price_impact(input_amount, output_amount, reserve_in, reserve_out) ==
    LET price_before == fx_div(from_num(reserve_out), from_num(reserve_in))
        price_after == fx_div(from_num(reserve_out - output_amount),
                              from_num(reserve_in + input_amount))
    IN  from_num(1) - fx_div(price_after, price_before)

is_price_impact_acceptable(config, price_impact) ==
    IF ~config.enabled THEN TRUE
    ELSE fx_mul(price_impact, from_num(10000)) <= from_num(config.max_slippage_bps)

\* I64F64::from_num(0.9): the f64 nearest to 0.9 is 0x3FECCCCCCCCCCCCD, just above
\* 0.9, and every f64 of that magnitude is an I64F64; at the model's resolution,
\* the least value that is not below 0.9
min_adjustment == (9 * ONE + 9) \div 10

adjust_output_for_slippage_noclamp(config, output_amount, price_impact) ==
    IF ~config.enabled THEN output_amount
    ELSE
        LET adjustment_factor ==
                from_num(1) - fx_div(fx_mul(price_impact,
                                            from_num(config.dynamic_adjustment_factor)),
                                     from_num(1000))
        IN  to_num_int(fx_mul(from_num(output_amount), adjustment_factor))

adjust_output_for_slippage_always(config, output_amount, price_impact) ==
    Bind(from_num(1) - fx_div(fx_mul(price_impact,
                                     from_num(config.dynamic_adjustment_factor)),
                              from_num(1000)), LAMBDA adjustment_factor :
        LET final_adjustment == IF adjustment_factor < min_adjustment
                                THEN min_adjustment ELSE adjustment_factor
        IN  to_num_int(fx_mul(from_num(output_amount), final_adjustment)))

adjust_output_for_slippage(config, output_amount, price_impact) ==
    IF ~config.enabled THEN output_amount
    ELSE
        Bind(from_num(1) - fx_div(fx_mul(price_impact,
                                         from_num(config.dynamic_adjustment_factor)),
                                  from_num(1000)), LAMBDA adjustment_factor :
            LET final_adjustment == IF adjustment_factor < min_adjustment
                                    THEN min_adjustment ELSE adjustment_factor
            IN  to_num_int(fx_mul(from_num(output_amount), final_adjustment)))

is_trade_beneficial_skipped(input_value, output_value, fee_percentage) == TRUE

\* a variant that also accepts an output equal to the cost
is_trade_beneficial_or_equal(input_value, output_value, fee_percentage) ==
    LET cost == fx_mul(input_value, from_num(1) + fee_percentage)
    IN  output_value >= cost

is_trade_beneficial(input_value, output_value, fee_percentage) ==
    LET cost == fx_mul(input_value, from_num(1) + fee_percentage)
    IN  output_value > cost

-----------------------------------------------------------------------------
(* models/volatility.rs *)

MAX_SAMPLES == 24

\* compensation_factor and compensation_period at the values of Default
VolatilityConfig(en, ws, ms, lambda) ==
    [enabled |-> en, window_size |-> ws, min_samples |-> ms, decay_lambda |-> lambda,
     compensation_factor |-> 1000, compensation_period |-> 86400]

\* VolatilityTracker::default(): slot i of the arrays is element i + 1
ZeroTracker ==
    [price_samples |-> [i \in 1..MAX_SAMPLES |-> 0],
     timestamps |-> [i \in 1..MAX_SAMPLES |-> 0],
     current_index |-> 0,
     volatility_raw |-> 0,
     last_updated |-> 0,
     last_compensated |-> 0]

\* f64::ln(p / q) converted by I64F64::from_num (to the nearest value), for bit
\* patterns p, q > 0.  ln(p/q) = k ln 2 + 2 atanh(z), z = (p - q 2^k)/(p + q 2^k),
\* with q 2^k <= p < q 2^(k+1); evaluated with 14 fractional bits.
RECURSIVE Log2Floor(_, _)
Log2Floor(p, q) == IF p >= 2 * q THEN 1 + Log2Floor(p, 2 * q) ELSE 0

ln_atanh(z, S) ==
    Bind((z * z) \div S, LAMBDA z2 :
    Bind((z * z2) \div S, LAMBDA z3 :
    Bind((z3 * z2) \div S, LAMBDA z5 :
    Bind((z5 * z2) \div S, LAMBDA z7 :
        z + z3 \div 3 + z5 \div 5 + z7 \div 7))))

ln_ratio_pos(p, q) ==
    Bind(16384, LAMBDA S :
    Bind(Log2Floor(p, q), LAMBDA k :
    Bind(q * Pow(2, k), LAMBDA qk :
        LET z == MulDivFloor(p - qk, S, p + qk)
            total == k * 11357 + 2 * ln_atanh(z, S)
        IN  (total * ONE + S \div 2) \div S)))

ln_ratio(p, q) == IF p >= q THEN ln_ratio_pos(p, q) ELSE -ln_ratio_pos(q, p)

\* weight = decay^i by repeated multiplication (lines 141-144)
RECURSIVE decay_weight(_, _)
decay_weight(decay, i) ==
    IF i = 0 THEN from_num(1) ELSE fx_mul(decay_weight(decay, i - 1), decay)

\* the slots read by iteration i of the loop of calculate_volatility
vol_idx(tr, i) == (tr.current_index + MAX_SAMPLES - 1 - i) % MAX_SAMPLES
vol_prev_idx(tr, i) == (vol_idx(tr, i) + MAX_SAMPLES - 1) % MAX_SAMPLES

\* does iteration i find two valid samples with positive prices
vol_pair_valid(tr, i) ==
    /\ tr.timestamps[vol_idx(tr, i) + 1] > 0
    /\ tr.timestamps[vol_prev_idx(tr, i) + 1] > 0
    /\ tr.price_samples[vol_idx(tr, i) + 1] > 0
    /\ tr.price_samples[vol_prev_idx(tr, i) + 1] > 0

\* the term iteration i adds to sum_squared_returns
vol_term(tr, config, i) ==
    LET log_return == ln_ratio(tr.price_samples[vol_idx(tr, i) + 1],
                               tr.price_samples[vol_prev_idx(tr, i) + 1])
        decay == fx_div(from_num(config.decay_lambda), from_num(1000))
    IN  fx_mul(fx_mul(log_return, log_return), decay_weight(decay, i))

RECURSIVE vol_sum(_, _, _)
vol_sum(tr, config, n) ==
    IF n = 0 THEN 0
    ELSE vol_sum(tr, config, n - 1)
         + (IF vol_pair_valid(tr, n - 1) THEN vol_term(tr, config, n - 1) ELSE 0)

valid_samples(tr, config) ==
    Cardinality({i \in 0..(config.window_size - 1) : vol_pair_valid(tr, i)})

\* a variant that zeroes the estimate when the window holds too few valid pairs
calculate_volatility_zeroing(tr, config) ==
    Bind(valid_samples(tr, config), LAMBDA n :
        IF n >= config.min_samples
        THEN LET sum_squared_returns == vol_sum(tr, config, config.window_size)
                 avg_squared_return == fx_div(sum_squared_returns, from_num(n))
                 volatility == fx_mul(fx_sqrt(avg_squared_return), from_num(365 * 24))
             IN  [tr EXCEPT !.volatility_raw = volatility]
        ELSE [tr EXCEPT !.volatility_raw = 0])

calculate_volatility(tr, config) ==
    Bind(valid_samples(tr, config), LAMBDA n :
        IF n >= config.min_samples
        THEN LET sum_squared_returns == vol_sum(tr, config, config.window_size)
                 avg_squared_return == fx_div(sum_squared_returns, from_num(n))
                 volatility == fx_mul(fx_sqrt(avg_squared_return), from_num(365 * 24))
             IN  [tr EXCEPT !.volatility_raw = volatility]
        ELSE tr)

update_price_sample_over_newest(tr, current_price, timestamp, config) ==
    IF ~config.enabled THEN tr
    ELSE
        LET prev_index == IF tr.current_index = 0 THEN MAX_SAMPLES - 1
                          ELSE tr.current_index - 1
            t1 == IF tr.timestamps[prev_index + 1] > 0
                  THEN calculate_volatility(tr, config) ELSE tr
        IN  [t1 EXCEPT !.price_samples[prev_index + 1] = current_price,
                       !.timestamps[prev_index + 1] = timestamp,
                       !.current_index = (tr.current_index + 1) % MAX_SAMPLES,
                       !.last_updated = timestamp]

\* a variant without the test of config.enabled
update_price_sample_always(tr, current_price, timestamp, config) ==
    LET prev_index == IF tr.current_index = 0 THEN MAX_SAMPLES - 1
                      ELSE tr.current_index - 1
        t1 == IF tr.timestamps[prev_index + 1] > 0
              THEN calculate_volatility(tr, config) ELSE tr
    IN  [t1 EXCEPT !.price_samples[tr.current_index + 1] = current_price,
                   !.timestamps[tr.current_index + 1] = timestamp,
                   !.current_index = (tr.current_index + 1) % MAX_SAMPLES,
                   !.last_updated = timestamp]

update_price_sample(tr, current_price, timestamp, config) ==
    IF ~config.enabled THEN tr
    ELSE
        LET prev_index == IF tr.current_index = 0 THEN MAX_SAMPLES - 1
                          ELSE tr.current_index - 1
            t1 == IF tr.timestamps[prev_index + 1] > 0
                  THEN calculate_volatility(tr, config) ELSE tr
        IN  [t1 EXCEPT !.price_samples[tr.current_index + 1] = current_price,
                       !.timestamps[tr.current_index + 1] = timestamp,
                       !.current_index = (tr.current_index + 1) % MAX_SAMPLES,
                       !.last_updated = timestamp]

get_volatility(tr) == tr.volatility_raw

\* I64F64::floor
fx_floor(x) == (x \div ONE) * ONE

\* the loss formula of lines 176-194, after the early return
il_compensation_amount(initial_price, current_price, liquidity_value, config) ==
    Bind(fx_div(current_price, initial_price), LAMBDA price_ratio :
        LET sqrt_ratio == fx_sqrt(price_ratio)
            numerator == fx_mul(from_num(2), sqrt_ratio)
            denominator == from_num(1) + price_ratio
            il_percentage == fx_div(numerator, denominator) - from_num(1)
            il_percentage_abs == Abs(il_percentage)
            compensation_factor == fx_div(from_num(config.compensation_factor),
                                          from_num(1000))
            compensation_amount == fx_mul(fx_mul(il_percentage_abs, compensation_factor),
                                          from_num(liquidity_value))
        IN  to_num_int(fx_floor(compensation_amount)))

calculate_il_compensation_no_period(tr, initial_price, current_price, liquidity_value, config, current_timestamp) ==
    IF ~config.enabled THEN 0
    ELSE il_compensation_amount(initial_price, current_price, liquidity_value, config)

\* initial_price > 0 and current_price >= 0: otherwise the division or the square
\* root aborts the call
calculate_il_compensation(tr, initial_price, current_price, liquidity_value, config, current_timestamp) ==
    IF \/ ~config.enabled
       \/ current_timestamp - tr.last_compensated < config.compensation_period
    THEN 0
    ELSE il_compensation_amount(initial_price, current_price, liquidity_value, config)

-----------------------------------------------------------------------------
(* instructions/swap_exact_tokens_for_tokens.rs *)

\* token::transfer of the token program: moves amount, or fails and moves nothing
token_transfer(from, to, amount) ==
    IF amount > from THEN [ok |-> FALSE, from |-> from, to |-> to]
    ELSE [ok |-> TRUE, from |-> from - amount, to |-> to + amount]

\* the accounts an instruction reads and writes
Accounts == [pool_a |-> pool_a, pool_b |-> pool_b,
             trader_a |-> trader_a, trader_b |-> trader_b, tracker |-> tracker]

\* Lines 36-127: the amounts the handler computes before its checks.  abort is a
\* panic on the way: the fee strategy overflowed, the fee exceeds the input, or a
\* reserve is zero (calculate_price_impact then divides by zero).
swap_quote(am, st, swap_a, input_amount, checks) ==
    Bind(IF swap_a THEN st.trader_a ELSE st.trader_b, LAMBDA trader_in :
    Bind(IF swap_a THEN st.pool_a ELSE st.pool_b, LAMBDA reserve_in :
    Bind(IF swap_a THEN st.pool_b ELSE st.pool_a, LAMBDA reserve_out :
    Bind(IF input_amount > trader_in THEN trader_in ELSE input_amount, LAMBDA input :
    Bind(IF am.fee_config.strategy # "Fixed"
         THEN get_fee_rate_bps(am.fee_config, input, reserve_in, reserve_out,
                               to_num_u16(get_volatility(st.tracker)), checks)
         ELSE [ok |-> TRUE, v |-> am.fee], LAMBDA fee :
    Bind(input - (input * fee.v) \div 10000, LAMBDA taxed_input :
    Bind(calculate_price_impact(input, 0, reserve_in, reserve_out), LAMBDA price_impact :
    Bind(to_num_int(fx_div(fx_mul(from_num(taxed_input), from_num(reserve_out)),
                           from_num(reserve_in) + from_num(taxed_input))), LAMBDA output :
        IF \/ ~fee.ok
           \/ (input * fee.v) \div 10000 > input
           \/ reserve_in = 0
           \/ reserve_out = 0
        THEN [abort |-> TRUE, input |-> input, reserve_in |-> reserve_in,
              reserve_out |-> reserve_out, fee_rate_bps |-> 0, taxed_input |-> 0,
              price_impact |-> 0, output |-> 0, adjusted_output |-> 0]
        ELSE [abort |-> FALSE, input |-> input, reserve_in |-> reserve_in,
              reserve_out |-> reserve_out, fee_rate_bps |-> fee.v,
              taxed_input |-> taxed_input, price_impact |-> price_impact,
              output |-> output,
              adjusted_output |-> adjust_output_for_slippage(am.price_impact_config,
                                                             output, price_impact)]
    ))))))))

\* Lines 90-141: the rejections decided before any transfer, in the code's order
swap_gate_slippage_first(am, q, min_output_amount) ==
    IF q.adjusted_output < min_output_amount THEN "OutputTooSmall"
    ELSE IF ~is_price_impact_acceptable(am.price_impact_config, q.price_impact)
    THEN "PriceImpactTooHigh"
    ELSE IF ~is_trade_beneficial(from_num(q.input), from_num(q.adjusted_output),
                                 fx_div(from_num(q.fee_rate_bps), from_num(10000)))
    THEN "TradeNotBeneficial"
    ELSE "pass"

swap_gate(am, q, min_output_amount) ==
    IF ~is_price_impact_acceptable(am.price_impact_config, q.price_impact)
    THEN "PriceImpactTooHigh"
    ELSE IF q.adjusted_output < min_output_amount THEN "OutputTooSmall"
    ELSE IF ~is_trade_beneficial(from_num(q.input), from_num(q.adjusted_output),
                                 fx_div(from_num(q.fee_rate_bps), from_num(10000)))
    THEN "TradeNotBeneficial"
    ELSE "pass"

\* Lines 156-204: trader -> pool of the input, then pool -> trader of the adjusted
\* output; n counts the transfers executed
swap_transfers(st, swap_a, q) ==
    LET t1 == IF swap_a THEN token_transfer(st.trader_a, st.pool_a, q.input)
              ELSE token_transfer(st.trader_b, st.pool_b, q.input)
        acc1 == IF swap_a THEN [st EXCEPT !.trader_a = t1.from, !.pool_a = t1.to]
                ELSE [st EXCEPT !.trader_b = t1.from, !.pool_b = t1.to]
        t2 == IF swap_a THEN token_transfer(acc1.pool_b, acc1.trader_b, q.adjusted_output)
              ELSE token_transfer(acc1.pool_a, acc1.trader_a, q.adjusted_output)
        acc2 == IF swap_a THEN [acc1 EXCEPT !.pool_b = t2.from, !.trader_b = t2.to]
                ELSE [acc1 EXCEPT !.pool_a = t2.from, !.trader_a = t2.to]
    IN  IF ~t1.ok THEN [n |-> 0, acc |-> st]
        ELSE IF ~t2.ok THEN [n |-> 1, acc |-> acc1]
        ELSE [n |-> 2, acc |-> acc2]

\* Lines 223-235: the price sample of a completed swap and its ingestion
swap_price(swap_a, acc) ==
    IF swap_a THEN fx_div(from_num(acc.pool_a), from_num(acc.pool_b))
    ELSE fx_div(from_num(acc.pool_b), from_num(acc.pool_a))

\* The handler.  The result names how the call ended (result; "Abort" is a panic),
\* the amounts computed on the way (q), how many token transfers were executed
\* before it ended (transfers), the sample handed to the tracker (price; 0 when
\* update_price_sample was not called, sampled tells) and the accounts as the
\* handler left them (acc).
swap_process_spot_price_unchecked(am, st, swap_a, input_amount, min_output_amount, now, checks) ==
    Bind(swap_quote(am, st, swap_a, input_amount, checks), LAMBDA q0 :
    Bind(IF q0.abort THEN 0
         ELSE (q0.taxed_input * q0.reserve_out) \div q0.reserve_in, LAMBDA spot :
    Bind([q0 EXCEPT !.output = spot,
                    !.adjusted_output =
                        adjust_output_for_slippage(am.price_impact_config, spot,
                                                   q0.price_impact)], LAMBDA q :
    Bind(swap_gate(am, q, min_output_amount), LAMBDA gate :
    Bind(swap_transfers(st, swap_a, q), LAMBDA x :
        LET end(result, n, acc) ==
                [result |-> result, transfers |-> n, q |-> q, sampled |-> FALSE,
                 price |-> 0, acc |-> acc]
        IN  IF q.abort THEN end("Abort", 0, st)
            ELSE IF gate # "pass" THEN end(gate, 0, st)
            ELSE IF x.n < 2 THEN end("TransferFailed", x.n, x.acc)
            ELSE IF x.acc.pool_a = 0 \/ x.acc.pool_b = 0 THEN end("Abort", 2, x.acc)
            ELSE Bind(swap_price(swap_a, x.acc), LAMBDA current_price :
                [result |-> "Ok", transfers |-> 2, q |-> q, sampled |-> TRUE,
                 price |-> current_price,
                 acc |-> [x.acc EXCEPT !.tracker =
                             update_price_sample(x.acc.tracker, current_price,
                                                 now, am.volatility_config)]])
    )))))

swap_exact_tokens_for_tokens_process(am, st, swap_a, input_amount, min_output_amount, now, checks) ==
    Bind(swap_quote(am, st, swap_a, input_amount, checks), LAMBDA q :
    Bind(swap_gate(am, q, min_output_amount), LAMBDA gate :
    Bind(st.pool_a * st.pool_b, LAMBDA invariant :
    Bind(swap_transfers(st, swap_a, q), LAMBDA x :
        LET end(result, n, acc) ==
                [result |-> result, transfers |-> n, q |-> q, sampled |-> FALSE,
                 price |-> 0, acc |-> acc]
        IN  IF q.abort THEN end("Abort", 0, st)
            ELSE IF gate # "pass" THEN end(gate, 0, st)
            ELSE IF x.n < 2 THEN end("TransferFailed", x.n, x.acc)
            ELSE IF invariant > x.acc.pool_a * x.acc.pool_b
            THEN end("InvariantViolated", 2, x.acc)
            ELSE IF x.acc.pool_a = 0 \/ x.acc.pool_b = 0 THEN end("Abort", 2, x.acc)
            ELSE Bind(swap_price(swap_a, x.acc), LAMBDA current_price :
                [result |-> "Ok", transfers |-> 2, q |-> q, sampled |-> TRUE,
                 price |-> current_price,
                 acc |-> [x.acc EXCEPT !.tracker =
                             update_price_sample(x.acc.tracker, current_price,
                                                 now, am.volatility_config)]])
    ))))

\* The runtime keeps the accounts an instruction wrote only when it returns Ok(()).
committed(st, out) == IF out.result = "Ok" THEN out.acc ELSE st

-----------------------------------------------------------------------------
(* The program: swaps against one pool *)

NoCall == [op |-> "none"]

\* Amm accounts: the one create_amm writes for fee = 30 (create_amm.rs 21-30 and
\* the Default impls), and accounts with the other policies switched on
DefaultAmm ==
    [fee |-> 30,
     fee_config |-> FeeConfig("Fixed", 15, 60, 30, 500),
     price_impact_config |-> PriceImpactConfig(FALSE, 50, 1000),
     volatility_config |-> VolatilityConfig(FALSE, 24, 2, 950)]

Amms ==
    { DefaultAmm,
      [fee |-> 2500,
       fee_config |-> FeeConfig("Fixed", 1250, 5000, 2500, 500),
       price_impact_config |-> PriceImpactConfig(TRUE, 2500, 1000),
       volatility_config |-> VolatilityConfig(TRUE, 24, 2, 950)],
      [fee |-> 30,
       fee_config |-> FeeConfig("VolatilityAdjusted", 0, 5000, 30, 500),
       price_impact_config |-> PriceImpactConfig(TRUE, 5000, 500),
       volatility_config |-> VolatilityConfig(TRUE, 3, 2, 950)],
      [fee |-> 30,
       fee_config |-> FeeConfig("Dynamic", 10, 2000, 30, 1000),
       price_impact_config |-> PriceImpactConfig(FALSE, 50, 1000),
       volatility_config |-> VolatilityConfig(TRUE, 2, 1, 500)] }

InitialReserves == { <<100, 100>>, <<4, 60>>, <<30, 3>> }
InputAmounts == {0, 1, 3, 200}
MinOutputs == {0, 3, 5, 6}

Init ==
    /\ amm \in Amms
    /\ \E r \in InitialReserves : pool_a = r[1] /\ pool_b = r[2]
    /\ trader_a = 4
    /\ trader_b = 2
    /\ tracker = ZeroTracker
    /\ clock = 1
    /\ overflow_checks \in BOOLEAN
    /\ last = NoCall
    /\ call = NoCall

Swap(swap_a, input_amount, min_output_amount) ==
    \E out \in { swap_exact_tokens_for_tokens_process(
                     amm, Accounts, swap_a, input_amount, min_output_amount,
                     clock, overflow_checks) } :
      \E after \in { committed(Accounts, out) } :
        /\ pool_a' = after.pool_a
        /\ pool_b' = after.pool_b
        /\ trader_a' = after.trader_a
        /\ trader_b' = after.trader_b
        /\ tracker' = after.tracker
        /\ last' = [op |-> "swap", swap_a |-> swap_a, input_amount |-> input_amount,
                    min_output_amount |-> min_output_amount,
                    before |-> Accounts, out |-> out]
        /\ UNCHANGED <<amm, clock, overflow_checks, call>>

Tick ==
    /\ clock < MaxClock
    /\ clock' = clock + 1
    /\ UNCHANGED <<amm, pool_a, pool_b, trader_a, trader_b, tracker,
                   overflow_checks, last, call>>

Next ==
    \/ \E swap_a \in BOOLEAN, i \in InputAmounts, m \in MinOutputs : Swap(swap_a, i, m)
    \/ Tick

Spec == Init /\ [][Next]_vars

-----------------------------------------------------------------------------
(* The pure functions on their own: the inputs are drawn by the initial         *)
(* predicate, one step applies the function.  The pool is not involved.         *)

NoPool ==
    /\ amm = DefaultAmm
    /\ pool_a = 0
    /\ pool_b = 0
    /\ trader_a = 0
    /\ trader_b = 0
    /\ last = NoCall

PoolUnchanged == UNCHANGED <<amm, pool_a, pool_b, trader_a, trader_b, last>>

\* FeeConfig values with 0 <= min_fee_bps <= base_fee_bps <= max_fee_bps <= 10000
FeeBps == {0, 10, 30, 100, 5000, 10000}
AdjustmentFactors == {0, 500, 1000, 2000}
ValidFeeConfigs ==
    { c \in { FeeConfig(s, mn, mx, b, adj) :
                s \in Strategies, mn \in FeeBps, mx \in FeeBps, b \in FeeBps,
                adj \in AdjustmentFactors } :
        c.min_fee_bps <= c.base_fee_bps /\ c.base_fee_bps <= c.max_fee_bps }

FeeInputs(strategy) ==
    CASE strategy = "Dynamic" -> {0, 1, 5, 10, 29, 30, 36}
      [] strategy = "Tiered" ->
            {0, tier1 - 1, tier1, tier2 - 1, tier2, tier3 - 1, tier3, tier3 + 1}
      [] OTHER -> {1}
FeeReserves(strategy) == IF strategy = "Dynamic" THEN {0, 4, 8} ELSE {10}
FeeVolatilities(strategy) ==
    IF strategy = "VolatilityAdjusted"
    THEN {0, 10, 49, 50, 51, 125, 199, 200, 201, 65535}
    ELSE {0}

InitFee ==
    /\ NoPool
    /\ tracker = ZeroTracker
    /\ clock = 1
    /\ overflow_checks \in BOOLEAN
    /\ \E c \in ValidFeeConfigs :
         /\ c.strategy = "Dynamic" \/ c.adjustment_factor = 500
         /\ \E i \in FeeInputs(c.strategy), r \in FeeReserves(c.strategy),
               v \in FeeVolatilities(c.strategy) :
              call = [op |-> "get_fee_rate_bps", config |-> c, input_amount |-> i,
                      reserve_in |-> r, reserve_out |-> 10, volatility |-> v,
                      done |-> FALSE, result |-> [ok |-> FALSE, v |-> 0]]

GetFeeRateBps ==
    /\ ~call.done
    /\ call' = [call EXCEPT
                  !.done = TRUE,
                  !.result = get_fee_rate_bps(call.config, call.input_amount,
                                              call.reserve_in, call.reserve_out,
                                              call.volatility, overflow_checks)]
    /\ PoolUnchanged
    /\ UNCHANGED <<tracker, clock, overflow_checks>>

NextFee == GetFeeRateBps

SpecFee == InitFee /\ [][NextFee]_vars

\* price impacts as bit patterns: negative, zero, small, around 10 %, above 1
Impacts ==
    { -(2 * ONE), -(ONE \div 2), -1, 0, 1, ONE \div 20, ONE \div 10,
      ONE \div 10 + 1, ONE \div 4, ONE \div 2, ONE, ONE + 1, 3 * ONE }
SlippageFactors == {0, 500, 1000, 3000}

InitImpact ==
    /\ NoPool
    /\ tracker = ZeroTracker
    /\ clock = 1
    /\ overflow_checks = TRUE
    /\ \E en \in BOOLEAN, daf \in SlippageFactors, o \in 0..MaxOutput, i \in Impacts :
         call = [op |-> "adjust_output_for_slippage",
                 config |-> PriceImpactConfig(en, 50, daf),
                 output_amount |-> o, price_impact |-> i,
                 done |-> FALSE, result |-> 0]

AdjustOutputForSlippage ==
    /\ ~call.done
    /\ call' = [call EXCEPT
                  !.done = TRUE,
                  !.result = adjust_output_for_slippage(call.config, call.output_amount,
                                                        call.price_impact)]
    /\ PoolUnchanged
    /\ UNCHANGED <<tracker, clock, overflow_checks>>

NextImpact == AdjustOutputForSlippage

SpecImpact == InitImpact /\ [][NextImpact]_vars

\* The tracker on its own: a zeroed tracker fed price samples at non-decreasing,
\* positive timestamps.  call counts the updates and keeps the prices fed.
MaxUpdates == 4
SamplePrices == { ONE \div 2, ONE, ONE + ONE \div 2, 3 * ONE }
TrackerConfigs ==
    { VolatilityConfig(en, ws, ms, 950) :
        en \in BOOLEAN, ws \in {2, 3, MAX_SAMPLES}, ms \in {1, 2} }

InitTracker ==
    /\ NoPool
    /\ tracker = ZeroTracker
    /\ clock = 1
    /\ overflow_checks = TRUE
    /\ \E c \in TrackerConfigs :
         call = [op |-> "update_price_sample", config |-> c, fed |-> << >>]

UpdatePriceSample(price) ==
    /\ Len(call.fed) < MaxUpdates
    /\ tracker' = update_price_sample(tracker, price, clock, call.config)
    /\ call' = [call EXCEPT !.fed = Append(call.fed, price)]
    /\ PoolUnchanged
    /\ UNCHANGED <<clock, overflow_checks>>

NextTracker ==
    \/ \E price \in SamplePrices : UpdatePriceSample(price)
    \/ Tick

SpecTracker == InitTracker /\ [][NextTracker]_vars

-----------------------------------------------------------------------------
(* The program from its first instruction: nothing exists, create_amm writes
   the Amm account, create_pool the Pool account, the pool's token accounts
   are funded, and then swaps run. *)

\* an account that was not created yet
NoAccount == [exists |-> FALSE]

\* create_amm.rs 14-49: the account constraint (line 47) and the handler
create_amm(fee) ==
    IF ~(fee < 10000) THEN [result |-> "InvalidFee", amm |-> NoAccount]
    ELSE [result |-> "Ok",
          amm |-> [fee |-> fee,
                   fee_config |-> FeeConfig("Fixed", fee \div 2, fee * 2, fee, 500),
                   price_impact_config |-> PriceImpactConfig(FALSE, 50, 1000),
                   volatility_config |-> VolatilityConfig(FALSE, 24, 2, 950)]]

\* fee arguments of create_amm
Fees == {0, 30, 5000, 6000, 9999, 10000, 20000}

InitProgram ==
    /\ amm = NoAccount
    /\ tracker = NoAccount
    /\ pool_a = 0
    /\ pool_b = 0
    /\ trader_a = 4
    /\ trader_b = 2
    /\ clock = 1
    /\ overflow_checks \in BOOLEAN
    /\ last = NoCall
    /\ call = NoCall

\* create_amm: init fails when the account exists already
CreateAmm(fee) ==
    /\ amm = NoAccount
    /\ \E out \in { create_amm(fee) } :
         /\ amm' = out.amm
         /\ last' = [op |-> "create_amm", fee |-> fee, result |-> out.result]
    /\ UNCHANGED <<pool_a, pool_b, trader_a, trader_b, tracker, clock,
                   overflow_checks, call>>

\* create_pool: needs the Amm account; the Pool account starts with a zeroed tracker
CreatePool ==
    /\ amm # NoAccount
    /\ tracker = NoAccount
    /\ tracker' = ZeroTracker
    /\ last' = [op |-> "create_pool"]
    /\ UNCHANGED <<amm, pool_a, pool_b, trader_a, trader_b, clock,
                   overflow_checks, call>>

\* deposit_liquidity (lib.rs 28-35): the first deposit into the pool's token accounts
DepositLiquidity(amount_a, amount_b) ==
    /\ tracker # NoAccount
    /\ pool_a = 0 /\ pool_b = 0
    /\ pool_a' = amount_a
    /\ pool_b' = amount_b
    /\ last' = [op |-> "deposit_liquidity"]
    /\ UNCHANGED <<amm, trader_a, trader_b, tracker, clock, overflow_checks, call>>

\* swap_exact_tokens_for_tokens on the pool created
SwapOnPool(swap_a, input_amount, min_output_amount) ==
    /\ amm # NoAccount
    /\ tracker # NoAccount
    /\ Swap(swap_a, input_amount, min_output_amount)

NextProgram ==
    \/ \E fee \in Fees : CreateAmm(fee)
    \/ CreatePool
    \/ \E r \in InitialReserves : DepositLiquidity(r[1], r[2])
    \/ \E swap_a \in BOOLEAN, i \in InputAmounts, m \in MinOutputs :
          SwapOnPool(swap_a, i, m)
    \/ Tick

SpecProgram == InitProgram /\ [][NextProgram]_vars

-----------------------------------------------------------------------------
(* calculate_il_compensation on its own *)

CompensationFactors == {0, 500, 1000, 1500}
CompensationPeriods == {0, 2}
LiquidityValues == {0, 1, 7, 10, 100}

InitCompensation ==
    /\ NoPool
    /\ overflow_checks = TRUE
    /\ clock \in 0..MaxClock
    /\ \E lc \in {0, 1} : tracker = [ZeroTracker EXCEPT !.last_compensated = lc]
    /\ \E en \in BOOLEAN, cf \in CompensationFactors, p \in CompensationPeriods,
          ip \in SamplePrices, cp \in SamplePrices, lv \in LiquidityValues :
         call = [op |-> "calculate_il_compensation",
                 config |-> [VolatilityConfig(en, 24, 2, 950) EXCEPT
                               !.compensation_factor = cf,
                               !.compensation_period = p],
                 initial_price |-> ip, current_price |-> cp, liquidity_value |-> lv,
                 done |-> FALSE, result |-> 0]

CalculateIlCompensation ==
    /\ ~call.done
    /\ call' = [call EXCEPT
                  !.done = TRUE,
                  !.result = calculate_il_compensation(
                                 tracker, call.initial_price, call.current_price,
                                 call.liquidity_value, call.config, clock)]
    /\ PoolUnchanged
    /\ UNCHANGED <<tracker, clock, overflow_checks>>

NextCompensation == CalculateIlCompensation

SpecCompensation == InitCompensation /\ [][NextCompensation]_vars

-----------------------------------------------------------------------------
(* The tracker over more updates than it has slots.  The prices follow one of a
   few sequences fixed at the start, so that every sample can be told from the
   others; call keeps the samples fed and the tracker before the last update. *)

\* number of updates, above MAX_SAMPLES so that the buffer wraps
MaxRingUpdates == 26

PricePatterns == {"rising", "falling", "zigzag", "gap"}

\* the price of update n >= 1; "gap" alternates between 2 and 1 and feeds the price 0
\* from the fifth update on
PatternPrice(pattern, n) ==
    CASE pattern = "rising" -> ONE \div 2 + 4 * n
      [] pattern = "falling" -> 3 * ONE - 4 * n
      [] pattern = "zigzag" -> IF n % 2 = 1 THEN ONE + n ELSE 2 * ONE - n
      [] pattern = "gap" -> IF n < 5 THEN ONE * ((n % 2) + 1) ELSE 0

RingConfigs ==
    { VolatilityConfig(TRUE, ws, ms, 950) :
        ws \in {1, 2, 3, MAX_SAMPLES - 1, MAX_SAMPLES}, ms \in {1, 2} }

InitRing ==
    /\ NoPool
    /\ tracker = ZeroTracker
    /\ clock = 1
    /\ overflow_checks = TRUE
    /\ \E c \in RingConfigs, p \in PricePatterns :
         call = [op |-> "ring", config |-> c, pattern |-> p, fed |-> << >>,
                 before |-> ZeroTracker]

RingUpdate ==
    /\ Len(call.fed) < MaxRingUpdates
    /\ \E price \in { PatternPrice(call.pattern, Len(call.fed) + 1) } :
         /\ tracker' = update_price_sample(tracker, price, clock, call.config)
         /\ call' = [call EXCEPT
                       !.fed = Append(@, [price |-> price, timestamp |-> clock]),
                       !.before = tracker]
    /\ PoolUnchanged
    /\ UNCHANGED <<clock, overflow_checks>>

NextRing == RingUpdate \/ Tick

SpecRing == InitRing /\ [][NextRing]_vars

-----------------------------------------------------------------------------
(* Compensation calls on the tracker of a live pool.  The Amm account is an *)
(* input of the handlers, as in Spec; the pool is created, funded and       *)
(* traded by the program's instructions, and calculate_il_compensation is   *)
(* called on its tracker between them.                                      *)

MaxCalls == 2

\* calculate_il_compensation takes &self: the tracker after the call is the tracker
\* before it, whatever amount the call returned
calculate_il_compensation_self_stamped(tr, amount, current_timestamp) ==
    IF amount > 0 THEN [tr EXCEPT !.last_compensated = current_timestamp] ELSE tr

calculate_il_compensation_self(tr, amount, current_timestamp) == tr

PayoutPeriods == {1, 2}
PayoutPrices == { ONE, 3 * ONE }
PayoutAmms ==
    { a \in Amms : a.volatility_config.enabled /\ a.fee_config.strategy = "Fixed" }
PayoutReserves == { <<4, 60>>, <<30, 3>> }

InitPayout ==
    /\ amm \in PayoutAmms
    /\ tracker = NoAccount
    /\ pool_a = 0
    /\ pool_b = 0
    /\ trader_a = 4
    /\ trader_b = 2
    /\ clock = 1
    /\ overflow_checks = TRUE
    /\ last = NoCall
    /\ \E p \in PayoutPeriods, cp \in PayoutPrices, t \in 1..MaxClock :
         call = [op |-> "payout",
                 config |-> [amm.volatility_config EXCEPT !.compensation_period = p],
                 initial_price |-> ONE, current_price |-> cp, liquidity_value |-> 100,
                 current_timestamp |-> t, calls |-> << >>]

\* one call of calculate_il_compensation on the pool's tracker, with the arguments
\* of this behaviour; calls keeps, for each call, the clock and the tracker it was
\* made on and the amount it returned
PayCompensation ==
    /\ tracker # NoAccount
    /\ Len(call.calls) < MaxCalls
    /\ \E amount \in { calculate_il_compensation(
                          tracker, call.initial_price, call.current_price,
                          call.liquidity_value, call.config, call.current_timestamp) } :
         /\ tracker' = calculate_il_compensation_self(tracker, amount,
                                                      call.current_timestamp)
         /\ call' = [call EXCEPT !.calls = Append(@,
                        [made |-> clock, tracker |-> tracker, result |-> amount])]
    /\ UNCHANGED <<amm, pool_a, pool_b, trader_a, trader_b, clock, overflow_checks, last>>

NextPayout ==
    \/ CreatePool
    \/ \E r \in PayoutReserves : DepositLiquidity(r[1], r[2])
    \/ \E swap_a \in BOOLEAN : SwapOnPool(swap_a, 1, 0)
    \/ PayCompensation
    \/ Tick

SpecPayout == InitPayout /\ [][NextPayout]_vars

-----------------------------------------------------------------------------
(* The claims *)

Swapped == last.op = "swap"
Accepted == Swapped /\ last.out.result = "Ok"
Product(st) == st.pool_a * st.pool_b

\* C1: every swap the handler accepts, in either direction, leaves the product of
\* the two pool reserves at least as large as it was before the swap.
C1_ProductNeverDecreases ==
    Accepted => Product(Accounts) >= Product(last.before)

\* an accepted swap of B for A after which the product is strictly larger
C1_Witness ==
    Accepted /\ ~last.swap_a /\ Product(Accounts) > Product(last.before)

\* C2: for a FeeConfig with 0 <= min <= base <= max <= 10000, every strategy, input
\* amount, reserve and volatility, the rate get_fee_rate_bps returns lies in
\* [min_fee_bps, max_fee_bps].
C2_FeeWithinBounds ==
    (call.op = "get_fee_rate_bps" /\ call.done /\ call.result.ok) =>
        /\ call.config.min_fee_bps <= call.result.v
        /\ call.result.v <= call.config.max_fee_bps

\* a VolatilityAdjusted rate whose u16 product wrapped, and is still in range
C2_Witness ==
    /\ call.op = "get_fee_rate_bps" /\ call.done /\ call.result.ok
    /\ call.config.strategy = "VolatilityAdjusted"
    /\ call.volatility >= low_threshold /\ call.volatility <= high_threshold
    /\ (call.volatility - low_threshold)
         * (call.config.max_fee_bps - call.config.min_fee_bps) > 65535

\* C3: a swap under the Fixed strategy (no price-impact protection) with
\* min_output_amount = 0 and a positive input is accepted and pays out
\* floor(taxed_input * reserve_out / (reserve_in + taxed_input)), where
\* taxed_input = input - floor(input * fee_bps / 10000).
C3_FixedSwapAccepted ==
    ( /\ Swapped
      /\ amm.fee_config.strategy = "Fixed"
      /\ ~amm.price_impact_config.enabled
      /\ last.min_output_amount = 0
      /\ last.out.q.input > 0
      /\ ~last.out.q.abort )
    => LET q == last.out.q
           taxed == q.input - (q.input * amm.fee) \div 10000
           paid == IF last.swap_a THEN trader_b - last.before.trader_b
                   ELSE trader_a - last.before.trader_a
       IN  /\ last.out.result = "Ok"
           /\ paid = (taxed * q.reserve_out) \div (q.reserve_in + taxed)

\* C4: a swap whose slippage-adjusted output equals min_output_amount succeeds, and
\* one whose adjusted output is one unit below it fails with OutputTooSmall.
C4_SlippageBoundary ==
    (Swapped /\ last.out.result \notin {"Abort", "PriceImpactTooHigh"}) =>
        /\ last.out.q.adjusted_output = last.min_output_amount
              => last.out.result = "Ok"
        /\ last.out.q.adjusted_output = last.min_output_amount - 1
              => last.out.result = "OutputTooSmall"

\* C5: a zeroed tracker with tracking enabled, min_samples = 2 and window_size >= 2
\* reports a volatility above 0 after three updates with strictly increasing prices.
C5_ThirdUpdatePositive ==
    ( /\ call.op = "update_price_sample"
      /\ call.config.enabled
      /\ call.config.min_samples = 2
      /\ call.config.window_size >= 2
      /\ Len(call.fed) = 3
      /\ call.fed[1] < call.fed[2]
      /\ call.fed[2] < call.fed[3] )
    => get_volatility(tracker) > 0

\* the checks of the handler, restated on the amounts it computed
ImpactAcceptable ==
    \/ ~amm.price_impact_config.enabled
    \/ fx_mul(last.out.q.price_impact, from_num(10000))
          <= from_num(amm.price_impact_config.max_slippage_bps)
OutputEnough == last.out.q.adjusted_output >= last.min_output_amount
Beneficial ==
    from_num(last.out.q.adjusted_output)
      > fx_mul(from_num(last.out.q.input),
               from_num(1) + fx_div(from_num(last.out.q.fee_rate_bps), from_num(10000)))

\* C6: a swap that ends in an error leaves the reserves, the trader balances and
\* the tracker as they were; the tracker is handed a sample only by a swap all of
\* whose checks passed, the invariant check after the transfers included.
C6_ErrorsChangeNothing ==
    Swapped =>
        /\ last.out.result # "Ok" => Accounts = last.before
        /\ (last.out.sampled \/ tracker # last.before.tracker) =>
              /\ last.out.result = "Ok"
              /\ ImpactAcceptable /\ OutputEnough /\ Beneficial
              /\ last.out.transfers = 2
              /\ Product(Accounts) >= Product(last.before)

\* a rejected swap on a pool whose tracker already holds samples
C6_Witness ==
    /\ Swapped
    /\ last.out.result \in {"PriceImpactTooHigh", "OutputTooSmall", "TradeNotBeneficial"}
    /\ tracker.current_index > 0
    /\ tracker.volatility_raw > 0

\* C7: PriceImpactTooHigh, OutputTooSmall and TradeNotBeneficial are decided before
\* any transfer and in that order (the first that applies is reported);
\* InvariantViolated is reported only after both transfers.
C7_RejectionOrder ==
    (Swapped /\ ~last.out.q.abort) =>
        /\ last.out.result = "PriceImpactTooHigh" <=> ~ImpactAcceptable
        /\ last.out.result = "OutputTooSmall" <=> (ImpactAcceptable /\ ~OutputEnough)
        /\ last.out.result = "TradeNotBeneficial"
              <=> (ImpactAcceptable /\ OutputEnough /\ ~Beneficial)
        /\ last.out.result \in {"PriceImpactTooHigh", "OutputTooSmall",
                                "TradeNotBeneficial"}
              => (last.out.transfers = 0 /\ last.out.acc = last.before)
        /\ last.out.result = "InvariantViolated" => last.out.transfers = 2

\* all three rejections apply at once and the first is the one reported
C7_Witness ==
    /\ Swapped /\ ~last.out.q.abort
    /\ ~ImpactAcceptable /\ ~OutputEnough /\ ~Beneficial
    /\ last.out.result = "PriceImpactTooHigh"

\* C8: the impact estimated with the output placeholder 0 is at least the impact of
\* the trade executed, so an accepted swap under price-impact protection has an
\* actual impact of at most max_slippage_bps.
C8_EstimateIsUpperBound ==
    Accepted =>
        LET q == last.out.q
            actual == calculate_price_impact(q.input, q.adjusted_output,
                                             q.reserve_in, q.reserve_out)
        IN  /\ q.price_impact >= actual
            /\ amm.price_impact_config.enabled =>
                  fx_mul(actual, from_num(10000))
                     <= from_num(amm.price_impact_config.max_slippage_bps)

AdjustCalled == call.op = "adjust_output_for_slippage" /\ call.done

\* C9: with protection enabled, adjust_output_for_slippage returns at least
\* floor(output * 9 / 10), and at most the output when the impact is not negative.
C9_AdjustedAtLeastNinetyPercent ==
    (AdjustCalled /\ call.config.enabled) =>
        /\ call.result >= (call.output_amount * 9) \div 10
        /\ call.price_impact >= 0 => call.result <= call.output_amount

\* the factor was cut off at 0.9: a large impact, and the result is below the output
C9_Witness ==
    /\ AdjustCalled /\ call.config.enabled
    /\ call.price_impact > ONE
    /\ call.config.dynamic_adjustment_factor = 1000
    /\ call.output_amount = 10
    /\ call.result = 9

\* C10: with protection disabled, adjust_output_for_slippage returns its
\* output_amount whatever the impact and the adjustment factor.
C10_DisabledIsIdentity ==
    (AdjustCalled /\ ~call.config.enabled) => call.result = call.output_amount

\* disabled, with an impact above 1 that would have cut a positive output
C10_Witness ==
    /\ AdjustCalled /\ ~call.config.enabled
    /\ call.price_impact > ONE
    /\ call.config.dynamic_adjustment_factor = 3000
    /\ call.output_amount = MaxOutput
    /\ call.result = MaxOutput

\* C11: every Amm account create_amm wrote holds a FeeConfig with
\* 0 <= min_fee_bps <= base_fee_bps <= max_fee_bps <= 10000, in every reachable
\* state; a fee of 10000 or more is rejected with InvalidFee.
C11_FeeConfigValid ==
    /\ amm # NoAccount =>
          /\ 0 <= amm.fee_config.min_fee_bps
          /\ amm.fee_config.min_fee_bps <= amm.fee_config.base_fee_bps
          /\ amm.fee_config.base_fee_bps <= amm.fee_config.max_fee_bps
          /\ amm.fee_config.max_fee_bps <= 10000
    /\ (last.op = "create_amm" /\ last.fee >= 10000) =>
          (last.result = "InvalidFee" /\ amm = NoAccount)


\* C12: a swap with an arithmetic step that has no valid result (here a division by
\* a zero reserve) ends with an explicit ArithmeticOverflow or DivisionByZero error;
\* no swap ends with an abort.
C12_ArithmeticErrorsExplicit ==
    Swapped =>
        /\ (last.out.q.reserve_in = 0 \/ last.out.q.reserve_out = 0) =>
              last.out.result \in {"ArithmeticOverflow", "DivisionByZero"}
        /\ last.out.result # "Abort"


CompensationCalled == call.op = "calculate_il_compensation" /\ call.done

\* |2 sqrt(r) / (1 + r) - 1| with r = current_price / initial_price, in I64F64
LossOfRatio(r) ==
    Abs(fx_div(fx_mul(from_num(2), fx_sqrt(r)), from_num(1) + r) - from_num(1))

RingFed == IF call.op = "ring" THEN Len(call.fed) ELSE 0
\* the slot (0-based) of the k-th most recent sample, k >= 1
RingSlot(k) == (tracker.current_index + MAX_SAMPLES * k - k) % MAX_SAMPLES
RingHeld == IF RingFed < MAX_SAMPLES THEN RingFed ELSE MAX_SAMPLES

\* C14: after n enabled updates of a zeroed tracker the cursor is n mod 24, the
\* buffer holds exactly the most recent min(n, 24) samples, the k-th most recent at
\* slot (cursor - k) mod 24, an update writes only the slot at the cursor, and
\* last_updated is the timestamp of the most recent sample.
C14_RingBuffer ==
    call.op = "ring" =>
        /\ tracker.current_index = RingFed % MAX_SAMPLES
        /\ tracker.current_index \in 0..(MAX_SAMPLES - 1)
        /\ \A k \in 1..RingHeld :
              /\ tracker.price_samples[RingSlot(k) + 1] = call.fed[RingFed - k + 1].price
              /\ tracker.timestamps[RingSlot(k) + 1] = call.fed[RingFed - k + 1].timestamp
        /\ \A s \in 0..(MAX_SAMPLES - 1) :
              (\A k \in 1..RingHeld : s # RingSlot(k)) =>
                  (tracker.price_samples[s + 1] = 0 /\ tracker.timestamps[s + 1] = 0)
        /\ RingFed >= 1 =>
              /\ tracker.last_updated = call.fed[RingFed].timestamp
              /\ \A s \in 0..(MAX_SAMPLES - 1) :
                    s # call.before.current_index =>
                       /\ tracker.price_samples[s + 1] = call.before.price_samples[s + 1]
                       /\ tracker.timestamps[s + 1] = call.before.timestamps[s + 1]

\* the buffer has wrapped: the 26th sample sits in slot 1 and replaced the second
C14_Witness ==
    /\ call.op = "ring"
    /\ RingFed = MAX_SAMPLES + 2
    /\ tracker.current_index = 2
    /\ tracker.price_samples[2] = call.fed[MAX_SAMPLES + 2].price
    /\ call.before.price_samples[2] = call.fed[2].price
    /\ call.fed[2].price # call.fed[MAX_SAMPLES + 2].price


\* the number (1 = first fed) of the sample a slot of call.before holds, 0 when the
\* slot is empty; call.before holds the samples 1 .. RingFed - 1
SampleInSlot(slot) ==
    LET age == (call.before.current_index + MAX_SAMPLES - 1 - slot) % MAX_SAMPLES
    IN  IF age < RingFed - 1 THEN RingFed - 1 - age ELSE 0

\* the iterations of the loop of calculate_volatility that added a log return
\* during the last update
PairsUsed ==
    { i \in 0..(call.config.window_size - 1) : vol_pair_valid(call.before, i) }

\* C15: every log return calculate_volatility accumulates is that of two
\* chronologically consecutive samples, the later one as numerator, and no pair is
\* used twice; for every window_size up to 24, also after the buffer has wrapped.
C15_ConsecutivePairs ==
    (call.op = "ring" /\ RingFed >= 2) =>
        /\ \A i \in PairsUsed :
              SampleInSlot(vol_idx(call.before, i))
                 = SampleInSlot(vol_prev_idx(call.before, i)) + 1
        /\ \A i, j \in PairsUsed :
              i # j => vol_idx(call.before, i) # vol_idx(call.before, j)


\* the last update ran calculate_volatility: the buffer held a previous valid sample
VolatilityRecomputed ==
    /\ call.op = "ring" /\ RingFed >= 2
    /\ call.before.timestamps[vol_idx(call.before, 0) + 1] > 0

\* C16: an enabled update_price_sample with fewer valid pairs in the window than
\* min_samples leaves the stored volatility estimate as it was, so the estimate is
\* overwritten only with at least min_samples valid pairs; get_volatility returns
\* the stored estimate verbatim.
C16_StaleEstimateKept ==
    (call.op = "ring" /\ RingFed >= 1) =>
        /\ (valid_samples(call.before, call.config) < call.config.min_samples
              \/ ~VolatilityRecomputed)
              => get_volatility(tracker) = call.before.volatility_raw
        /\ get_volatility(tracker) = tracker.volatility_raw

\* a recomputation with too few valid pairs that keeps a positive estimate
C16_Witness ==
    /\ VolatilityRecomputed
    /\ valid_samples(call.before, call.config) < call.config.min_samples
    /\ call.before.volatility_raw > 0
    /\ get_volatility(tracker) = call.before.volatility_raw


\* a tracker holding n <= 24 samples and an estimate, as enabled tracking leaves it
FilledTracker(n) ==
    [ZeroTracker EXCEPT
        !.price_samples = [k \in 1..MAX_SAMPLES |-> IF k <= n THEN ONE + k ELSE 0],
        !.timestamps = [k \in 1..MAX_SAMPLES |-> IF k <= n THEN 1 ELSE 0],
        !.current_index = n % MAX_SAMPLES,
        !.volatility_raw = IF n >= 3 THEN ONE ELSE 0,
        !.last_updated = IF n >= 1 THEN 1 ELSE 0]

\* C17: with VolatilityConfig.enabled false update_price_sample changes no field of
\* the tracker (slots, timestamps, cursor, estimate, last_updated, last_compensated)
\* for any price and timestamp; the configuration create_amm installs is disabled,
\* so no sequence of swaps changes the tracker of a pool.
C17_DisabledTrackerUntouched ==
    /\ amm # NoAccount =>
          /\ ~amm.volatility_config.enabled
          /\ \A tr \in {FilledTracker(0), FilledTracker(3), FilledTracker(MAX_SAMPLES)},
                price \in SamplePrices \cup {0, 0 - ONE}, timestamp \in 0..MaxClock :
                update_price_sample(tr, price, timestamp, amm.volatility_config) = tr
    /\ tracker \in {NoAccount, ZeroTracker}
    /\ last.op = "swap" => tracker = last.before.tracker

\* a successful swap on a pool of a created Amm that left the tracker as it was
C17_Witness ==
    /\ amm # NoAccount
    /\ last.op = "swap" /\ last.out.result = "Ok"
    /\ FilledTracker(3) # ZeroTracker
    /\ tracker = last.before.tracker


\* C18: after a successful swap the price sample handed to the tracker is the updated
\* reserve of the token the trader received divided by the updated reserve of the
\* token the trader paid in, for both swap directions.
C18_SampleIsOutOverIn ==
    (last.op = "swap" /\ last.out.result = "Ok") =>
        /\ last.out.sampled
        /\ last.out.price =
              IF last.swap_a THEN fx_div(from_num(pool_b), from_num(pool_a))
              ELSE fx_div(from_num(pool_a), from_num(pool_b))


\* the fee the specification gives for the VolatilityAdjusted strategy
InterpolatedFee(config, volatility) ==
    IF volatility < 50 THEN config.min_fee_bps
    ELSE IF volatility > 200 THEN config.max_fee_bps
    ELSE config.min_fee_bps
           + ((volatility - 50) * (config.max_fee_bps - config.min_fee_bps)) \div 150

VolatilityAdjustedCalled ==
    /\ call.op = "get_fee_rate_bps" /\ call.done
    /\ call.config.strategy = "VolatilityAdjusted"
    /\ call.config.min_fee_bps <= call.config.max_fee_bps
    /\ call.config.max_fee_bps <= 10000

\* C19: under the VolatilityAdjusted strategy with min_fee_bps <= max_fee_bps <= 10000
\* the fee is min_fee_bps below volatility 50, max_fee_bps above 200 and
\* min + floor((volatility - 50) * (max - min) / 150) in between; it never decreases
\* when the volatility grows and is max_fee_bps at volatility 200.
C19_VolatilityAdjustedFee ==
    VolatilityAdjustedCalled =>
        /\ call.result.ok
        /\ call.result.v = InterpolatedFee(call.config, call.volatility)
        /\ \A v \in FeeVolatilities("VolatilityAdjusted") :
              v >= call.volatility =>
                 Bind(get_fee_rate_bps(call.config, call.input_amount, call.reserve_in,
                                       call.reserve_out, v, overflow_checks),
                      LAMBDA r : r.ok /\ r.v >= call.result.v)
        /\ call.volatility = 200 => call.result.v = call.config.max_fee_bps


\* the fee the specification gives for the Dynamic strategy before clamping:
\* floor(base + (adjustment_factor / 1000) * ratio^2 * 10000), in exact arithmetic
UnclampedDynamicFee(config, input_amount, reserve) ==
    IF reserve = 0 THEN config.base_fee_bps + config.adjustment_factor * 10
    ELSE config.base_fee_bps
           + (config.adjustment_factor * input_amount * input_amount * 10)
                \div (reserve * reserve)

DynamicCalled ==
    /\ call.op = "get_fee_rate_bps" /\ call.done
    /\ call.config.strategy = "Dynamic"

\* an input so large that the unclamped fee exceeds max_fee_bps yields max_fee_bps
LargeInputPaysMax ==
    (DynamicCalled /\ UnclampedDynamicFee(call.config, call.input_amount, call.reserve_in)
                         > call.config.max_fee_bps)
        => call.result.v = call.config.max_fee_bps

\* C20: under the Dynamic strategy get_fee_rate_bps returns
\* clamp(floor(base + (adjustment_factor / 1000) * ratio^2 * 10000), min, max) with
\* ratio = input_amount / reserve_in (1 when reserve_in = 0); the fee never decreases
\* when input_amount grows for a fixed reserve, and an input whose unclamped fee
\* exceeds max_fee_bps pays max_fee_bps.
C20_DynamicFee ==
    DynamicCalled =>
        /\ call.result.ok
        /\ call.result.v =
              clamp(UnclampedDynamicFee(call.config, call.input_amount, call.reserve_in),
                    call.config.min_fee_bps, call.config.max_fee_bps)
        /\ \A i \in FeeInputs("Dynamic") :
              i >= call.input_amount =>
                 Bind(get_fee_rate_bps(call.config, i, call.reserve_in, call.reserve_out,
                                       call.volatility, overflow_checks),
                      LAMBDA r : r.ok /\ r.v >= call.result.v)
        /\ LargeInputPaysMax


\* the fee the specification gives for the Tiered strategy; the thresholds are
\* 1,000, 10,000 and 100,000 tokens in units of 10^TOKEN_DECIMALS
TierFee(config, input_amount) ==
    IF input_amount < 1000 * Pow(10, TOKEN_DECIMALS) THEN config.max_fee_bps
    ELSE IF input_amount < 10000 * Pow(10, TOKEN_DECIMALS)
         THEN (config.max_fee_bps + config.base_fee_bps) \div 2
    ELSE IF input_amount < 100000 * Pow(10, TOKEN_DECIMALS) THEN config.base_fee_bps
    ELSE config.min_fee_bps

TieredCalled ==
    /\ call.op = "get_fee_rate_bps" /\ call.done
    /\ call.config.strategy = "Tiered"

\* C21: under the Tiered strategy the fee is max_fee_bps below 1,000 tokens,
\* floor((max + base) / 2) from 1,000 to below 10,000 tokens, base_fee_bps from 10,000
\* to below 100,000 tokens and min_fee_bps from 100,000 tokens on, each threshold
\* belonging to the higher-volume tier; with min <= base <= max the fee never
\* increases when input_amount grows.
C21_TieredFee ==
    TieredCalled =>
        /\ call.result.ok
        /\ call.result.v = TierFee(call.config, call.input_amount)
        /\ \A i \in FeeInputs("Tiered") :
              i >= call.input_amount =>
                 Bind(get_fee_rate_bps(call.config, i, call.reserve_in, call.reserve_out,
                                       call.volatility, overflow_checks),
                      LAMBDA r : r.ok /\ r.v <= call.result.v)

\* a call exactly at the first threshold that pays the second tier's fee, which
\* differs from the first tier's
C21_Witness ==
    /\ TieredCalled
    /\ call.input_amount = 1000 * Pow(10, TOKEN_DECIMALS)
    /\ call.result.v = (call.config.max_fee_bps + call.config.base_fee_bps) \div 2
    /\ call.result.v < call.config.max_fee_bps


PayoutCalls == IF call.op = "payout" THEN DOMAIN call.calls ELSE {}

\* C22: no operation changes a tracker's last_compensated, which keeps the value it
\* was created with in every reachable state; so two calculate_il_compensation calls
\* with the same arguments (all calls of a behaviour have the same), made within one
\* compensation_period of each other, return the same amount, also when that amount
\* is not zero.
C22_LastCompensatedNeverMoves ==
    /\ tracker # NoAccount => tracker.last_compensated = ZeroTracker.last_compensated
    /\ \A i, j \in PayoutCalls :
          Abs(call.calls[i].made - call.calls[j].made) < call.config.compensation_period
             => call.calls[i].result = call.calls[j].result

\* two calls with the same arguments within one period, with a price sample stored
\* between them, that both pay the same positive amount
C22_Witness ==
    /\ call.op = "payout" /\ Len(call.calls) = 2
    /\ Abs(call.calls[1].made - call.calls[2].made) < call.config.compensation_period
    /\ call.calls[1].tracker # call.calls[2].tracker
    /\ call.calls[1].result > 0
    /\ call.calls[2].result = call.calls[1].result


\* the reserves a swap found: of the token paid in and of the token paid out
ReserveInBefore == IF last.swap_a THEN last.before.pool_a ELSE last.before.pool_b
ReserveOutBefore == IF last.swap_a THEN last.before.pool_b ELSE last.before.pool_a

\* would the handler accept a swap of this direction in the current state
WouldAccept(swap_a) ==
    \E i \in InputAmounts :
        swap_exact_tokens_for_tokens_process(amm, Accounts, swap_a, i, 0, clock,
                                             overflow_checks).result = "Ok"

\* C23: every swap whose reserve_out is at most its reserve_in is rejected before any
\* token transfer, for every input amount (0 included), fee rate and price-impact
\* configuration; so a pool with equal reserves accepts no swap in either direction
\* and no pool state lets both directions be accepted.
C23_NoSwapTowardsSmallerReserve ==
    /\ (Swapped /\ ReserveOutBefore <= ReserveInBefore) =>
          /\ last.out.result # "Ok"
          /\ last.out.transfers = 0
          /\ Accounts = last.before
    /\ pool_a = pool_b => (~WouldAccept(TRUE) /\ ~WouldAccept(FALSE))
    /\ ~(WouldAccept(TRUE) /\ WouldAccept(FALSE))

\* a swap of a positive input on a funded pool whose reserve_out is at most its
\* reserve_in, refused as not beneficial
C23_Witness ==
    /\ Swapped
    /\ ReserveOutBefore > 0 /\ ReserveOutBefore <= ReserveInBefore
    /\ last.out.q.input > 0
    /\ last.out.result = "TradeNotBeneficial"
    /\ Accounts = last.before


\* C24: from a pool with both reserves positive, every sequence of swaps leaves both
\* reserves positive: a swap that pays out pays strictly less than the reserve of
\* the token paid out, and the reserve of the token paid in does not shrink.
C24_ReservesStayPositive ==
    /\ pool_a > 0 /\ pool_b > 0
    /\ (Swapped /\ last.out.transfers = 2) =>
          /\ last.out.q.adjusted_output < ReserveOutBefore
          /\ last.out.acc.pool_a > 0 /\ last.out.acc.pool_b > 0
    /\ Accepted =>
          IF last.swap_a THEN pool_a >= last.before.pool_a /\ pool_b > 0
          ELSE pool_b >= last.before.pool_b /\ pool_a > 0

\* an accepted swap that paid out a positive amount and left both reserves positive
C24_Witness ==
    /\ Accepted
    /\ last.out.q.adjusted_output > 0
    /\ last.out.q.adjusted_output < ReserveOutBefore
    /\ pool_a > 0 /\ pool_b > 0
    /\ Product(Accounts) # Product(last.before)

=============================================================================
